---- MODULE Spec2Model ----
(***************************************************************************)
(* State-machine model of the clinker supply-chain backend:                *)
(*   backend/data_parser.py  ExcelDataParser  (dataset store, validator,   *)
(*                                             route-validity index)       *)
(*   backend/optimizer.py    ClinkerOptimizer (balance-and-cost calculator)*)
(*   backend/api.py          the request handlers that tie the two         *)
(*                                                                         *)
(* A table (pandas DataFrame) is a record [cols, rows]: the set of column  *)
(* names and the sequence of rows in file order.  A cell of a numeric      *)
(* column is a record [kind, v] with kind "num" (a number), "nan" (empty   *)
(* cell, pandas NaN) or "text" (a non-numeric string).  Quantities and     *)
(* rates are whole numbers.                                                *)
(***************************************************************************)
EXTENDS Integers, Sequences, FiniteSets, TLC

VARIABLES
    parser_data,         \* ExcelDataParser.data      (sheet name -> table)
    parser_metadata,     \* ExcelDataParser.metadata
    parser_is_loaded,    \* ExcelDataParser.is_loaded
    parser_load_errors,  \* ExcelDataParser.load_errors
    optimizer_data,      \* ClinkerOptimizer.data
    optimizer_is_loaded, \* ClinkerOptimizer.is_loaded
    last,                \* the last request handled and its response
    loading              \* the load request in progress and its position

vars == <<parser_data, parser_metadata, parser_is_loaded, parser_load_errors,
          optimizer_data, optimizer_is_loaded, last, loading>>

---------------------------------------------------------------------------
(* Sequence helpers (pandas unique(), sorted(), list membership)           *)

Range(s) == {s[i] : i \in 1..Len(s)}

Contains(s, x) == \E i \in 1..Len(s) : s[i] = x

RECURSIVE Unique(_)
Unique(s) ==
    IF s = <<>> THEN <<>>
    ELSE LET init == Unique(SubSeq(s, 1, Len(s) - 1))
             x    == s[Len(s)]
         IN  IF Contains(init, x) THEN init ELSE Append(init, x)

RECURSIVE Sorted(_)
Sorted(S) ==
    IF S = {} THEN <<>>
    ELSE LET m == CHOOSE x \in S : \A y \in S : x <= y
         IN  <<m>> \o Sorted(S \ {m})

---------------------------------------------------------------------------
(* Cells                                                                   *)

Num(n) == [kind |-> "num", v |-> n]
NaN    == [kind |-> "nan", v |-> 0]
Text   == [kind |-> "text", v |-> 0]

\* pd.isna(cell)
IsNa(c) == c.kind = "nan"

\* pd.to_numeric(column, errors='coerce') on one cell
to_numeric(c) == IF c.kind = "text" THEN NaN ELSE c

---------------------------------------------------------------------------
(* Schema contract                                                         *)

SheetOrder == <<"IUGUType", "Logistics", "Demand", "Capacity", "ProductionCost",
                "OpeningStock", "ClosingStock", "Constraints", "HubOpeningStock">>

SHEET_CONFIG ==
    [IUGUType        |-> [file |-> "IUGUType.csv", required |-> TRUE,
                          columns |-> {"IUGU CODE", "PLANT TYPE"}],
     Logistics       |-> [file |-> "LogisticsIUGU.csv", required |-> TRUE,
                          columns |-> {"FROM IU CODE", "TO IUGU CODE", "TRANSPORT CODE",
                                       "TIME PERIOD", "FREIGHT COST", "HANDLING COST",
                                       "QUANTITY MULTIPLIER"}],
     Demand          |-> [file |-> "ClinkerDemand.csv", required |-> TRUE,
                          columns |-> {"IUGU CODE", "TIME PERIOD", "DEMAND"}],
     Capacity        |-> [file |-> "ClinkerCapacity.csv", required |-> TRUE,
                          columns |-> {"IU CODE", "TIME PERIOD", "CAPACITY"}],
     ProductionCost  |-> [file |-> "ProductionCost.csv", required |-> TRUE,
                          columns |-> {"IU CODE", "TIME PERIOD", "PRODUCTION COST"}],
     OpeningStock    |-> [file |-> "IUGUOpeningStock.csv", required |-> TRUE,
                          columns |-> {"IUGU CODE", "OPENING STOCK"}],
     ClosingStock    |-> [file |-> "IUGUClosingStock.csv", required |-> TRUE,
                          columns |-> {"IUGU CODE", "TIME PERIOD", "MIN CLOSE STOCK",
                                       "MAX CLOSE STOCK"}],
     Constraints     |-> [file |-> "IUGUConstraint.csv", required |-> FALSE,
                          columns |-> {"IU CODE", "TRANSPORT CODE", "IUGU CODE",
                                       "TIME PERIOD", "BOUND TYPEID", "VALUE TYPEID",
                                       "Value"}],
     HubOpeningStock |-> [file |-> "HubOpeningStock.csv", required |-> FALSE,
                          columns |-> {"IU", "IUGU", "Opening Stock"}]]

SheetNames     == Range(SheetOrder)
RequiredSheets == {s \in SheetNames : SHEET_CONFIG[s].required}

\* str.strip() on the header strings the input files use
Strip(h) == IF h = " OPENING STOCK " THEN "OPENING STOCK" ELSE h

\* str.upper() on the header strings the input files use
Upper(h) ==
    CASE h = "time period"   -> "TIME PERIOD"
      [] h = "Value"         -> "VALUE"
      [] h = "Opening Stock" -> "OPENING STOCK"
      [] OTHER               -> h

EmptyData == [s \in {} |-> 0]

---------------------------------------------------------------------------
(* Input files: a CSV folder or an Excel workbook holds, per sheet, whether *)
(* it can be read, its header row as written, and its rows.                *)

LogisticsRow(src, dst, mode, period, freight, handling) ==
    [src |-> src, dst |-> dst, mode |-> mode, period |-> period,
     freight |-> freight, handling |-> handling, mult |-> Num(1)]

L1 == LogisticsRow("IU1", "GU1", "T1", 1, Num(5), Num(1))
L2 == LogisticsRow("IU1", "GU1", "T2", 2, Num(6), Num(1))
L3 == LogisticsRow("IU1", "GU2", "T1", 1, NaN,    Num(1))
L4 == LogisticsRow("IU1", "GU2", "T1", 2, Num(4), Num(1))
L5 == LogisticsRow("IU2", "GU1", "T1", 1, Num(3), Num(1))
L6 == LogisticsRow("IU3", "GU2", "T1", 1, Num(7), Num(2))
L7 == LogisticsRow("IU3", "GU2", "T3", 2, Num(2), NaN)
L8 == LogisticsRow("IU3", "GU2", "T9", 2, Num(9), Num(1))

InputRows(sheet, rv) ==
    CASE sheet = "IUGUType" ->
           << [code |-> "IU1", ptype |-> "IU"], [code |-> "IU2", ptype |-> "IU"],
              [code |-> "IU3", ptype |-> "IU"], [code |-> "GU1", ptype |-> "GU"],
              [code |-> "GU2", ptype |-> "GU"] >>
      [] sheet = "Logistics" ->
           CASE rv = "text_freight" -> <<L1, L2, L3, L4, L5, [L6 EXCEPT !.freight = Text], L7, L8>>
             [] rv = "swapped"      -> <<L1, L2, L4, L3, L5, L6, L7, L8>>
             [] OTHER               -> <<L1, L2, L3, L4, L5, L6, L7, L8>>
      [] sheet = "Demand" ->
           << [code |-> "GU1", period |-> 1, demand |-> Num(200)],
              [code |-> "GU2", period |-> 2, demand |-> Num(50)] >>
      [] sheet = "Capacity" ->
           << [code |-> "IU1", period |-> 1, capacity |-> Num(1000)],
              [code |-> "IU3", period |-> 1, capacity |-> Num(500)] >>
      [] sheet = "ProductionCost" ->
           << [code |-> "IU1", period |-> 1, cost |-> Num(10)],
              [code |-> "IU2", period |-> 1, cost |-> Num(12)],
              [code |-> "IU3", period |-> 1, cost |-> Num(8)] >>
      [] sheet = "OpeningStock" ->
           << [code |-> "IU1", stock |-> Num(100)],
              [code |-> "GU1", stock |-> Num(20)] >>
      [] sheet = "ClosingStock" ->
           << [code |-> "IU1", period |-> 1, min |-> Num(50), max |-> NaN],
              [code |-> "GU1", period |-> 1, min |-> Num(30), max |-> Num(400)] >>
      [] OTHER -> <<>>

InputHeader(sheet, lhdr, ohdr) ==
    CASE sheet = "Logistics" /\ lhdr = "lower_period" ->
           (SHEET_CONFIG[sheet].columns \ {"TIME PERIOD"}) \cup {"time period"}
      [] sheet = "Logistics" /\ lhdr = "no_freight" ->
           SHEET_CONFIG[sheet].columns \ {"FREIGHT COST"}
      [] sheet = "OpeningStock" /\ ohdr = "padded" ->
           {"IUGU CODE", " OPENING STOCK "}
      [] OTHER -> SHEET_CONFIG[sheet].columns

InputFile(absent, unreadable, openable, lhdr, ohdr, rv) ==
    [openable |-> openable,
     sheets   |-> [s \in SheetNames \ absent |->
                     [readable |-> s \notin unreadable,
                      header   |-> InputHeader(s, lhdr, ohdr),
                      rows     |-> InputRows(s, rv)]]]

\* The files offered to the load operations: the complete dataset, one
\* whose optional sheets are absent or unreadable, one with broken required
\* sheets, a path that cannot be opened, two header variations and two row
\* variations.
InputFiles ==
    << InputFile({}, {}, TRUE, "exact", "exact", "base"),
       InputFile({"HubOpeningStock"}, {"Constraints"}, TRUE, "exact", "padded", "base"),
       InputFile({"OpeningStock"}, {"ClosingStock"}, TRUE, "exact", "exact", "base"),
       InputFile({}, {}, FALSE, "exact", "exact", "base"),
       InputFile({}, {}, TRUE, "lower_period", "exact", "base"),
       InputFile({}, {}, TRUE, "no_freight", "exact", "base"),
       InputFile({}, {}, TRUE, "exact", "exact", "text_freight"),
       InputFile({}, {}, TRUE, "exact", "exact", "swapped") >>

FileIds == 1..Len(InputFiles)

---------------------------------------------------------------------------
(* ExcelDataParser: route-validity index                                   *)

RECURSIVE Concat(_)
Concat(ss) == IF ss = <<>> THEN <<>> ELSE Head(ss) \o Concat(Tail(ss))

Column(rows, field) == [i \in 1..Len(rows) |-> rows[i][field]]

\* has_complete_data with the capacity check left out
has_complete_data_no_capacity(data, source, destination) ==
    IF "Logistics" \notin DOMAIN data THEN FALSE
    ELSE
    LET logistics_df == data["Logistics"]
        route_data   == SelectSeq(logistics_df.rows,
                                  LAMBDA r : r.src = source /\ r.dst = destination)
        has_row(sheet, code) == \E i \in 1..Len(data[sheet].rows) :
                                    data[sheet].rows[i].code = code
    IN  /\ route_data # <<>>
        /\ "FREIGHT COST" \in logistics_df.cols
        /\ ~IsNa(route_data[1].freight)
        /\ "ProductionCost" \in DOMAIN data
        /\ has_row("ProductionCost", source)
        /\ "Demand" \in DOMAIN data
        /\ "IUGU CODE" \in data["Demand"].cols
        /\ has_row("Demand", destination)

\* A source-destination pair has what the calculator needs.  The freight
\* cost looked at is that of the first route row of the pair (iloc[0]).
has_complete_data(data, source, destination) ==
    IF "Logistics" \notin DOMAIN data THEN FALSE
    ELSE
    LET logistics_df == data["Logistics"]
        route_data   == SelectSeq(logistics_df.rows,
                                  LAMBDA r : r.src = source /\ r.dst = destination)
        freight_ok   == /\ "FREIGHT COST" \in logistics_df.cols
                        /\ ~IsNa(route_data[1].freight)
        keyed(sheet) == \/ "IU CODE" \in data[sheet].cols
                        \/ "IUGU CODE" \in data[sheet].cols
        has_row(sheet, code) == \E i \in 1..Len(data[sheet].rows) :
                                    data[sheet].rows[i].code = code
    IN  /\ route_data # <<>>
        /\ freight_ok
        /\ "ProductionCost" \in DOMAIN data
        /\ keyed("ProductionCost")
        /\ has_row("ProductionCost", source)
        /\ "Capacity" \in DOMAIN data
        /\ keyed("Capacity")
        /\ has_row("Capacity", source)
        /\ "Demand" \in DOMAIN data
        /\ "IUGU CODE" \in data["Demand"].cols
        /\ has_row("Demand", destination)

get_destinations_for_source(data, is_loaded, source_iu) ==
    IF ~is_loaded \/ "Logistics" \notin DOMAIN data THEN <<>>
    ELSE
    LET df == data["Logistics"]
        all_destinations ==
            Unique(Column(SelectSeq(df.rows, LAMBDA r : r.src = source_iu), "dst"))
    IN  SelectSeq(all_destinations, LAMBDA d : has_complete_data(data, source_iu, d))

get_modes_for_route(data, is_loaded, source, destination) ==
    IF ~is_loaded \/ "Logistics" \notin DOMAIN data THEN <<>>
    ELSE Unique(Column(SelectSeq(data["Logistics"].rows,
                                 LAMBDA r : r.src = source /\ r.dst = destination),
                       "mode"))

---------------------------------------------------------------------------
(* ExcelDataParser: metadata extraction.  Reading a column a table does     *)
(* not have raises KeyError; what was assigned before the raise stays.      *)

EmptyMetadata ==
    [keys |-> {}, plants |-> <<>>, iu_plants |-> <<>>, gu_plants |-> <<>>,
     all_destinations |-> <<>>, transport_modes |-> <<>>, source_ius |-> <<>>,
     periods |-> <<>>, record_counts |-> EmptyData, routes_by_source |-> EmptyData,
     modes_by_route |-> EmptyData, all_sources_count |-> 0, valid_sources_count |-> 0]

MetaSet(md, k, v) == [md EXCEPT ![k] = v, !.keys = @ \cup {k}]

Done(md)   == [md |-> md, raised |-> FALSE]
Raised(md) == [md |-> md, raised |-> TRUE]

route_key(src, dst) == src \o "_" \o dst

build_route_index(data, md) ==
    LET df      == data["Logistics"]
        sources == Range(Column(df.rows, "src"))
        keys    == {route_key(df.rows[i].src, df.rows[i].dst) : i \in 1..Len(df.rows)}
        routes_by_source ==
            [s \in sources |->
               Unique(Column(SelectSeq(df.rows, LAMBDA r : r.src = s), "dst"))]
        modes_by_route ==
            [k \in keys |->
               Unique(Column(SelectSeq(df.rows, LAMBDA r : route_key(r.src, r.dst) = k),
                             "mode"))]
    IN  MetaSet(MetaSet(md, "routes_by_source", routes_by_source),
                "modes_by_route", modes_by_route)

filter_sources_with_complete_data(data, is_loaded, md) ==
    IF "source_ius" \notin md.keys THEN md
    ELSE
    LET all_sources   == md.source_ius
        valid_sources ==
            SelectSeq(all_sources,
                      LAMBDA s : get_destinations_for_source(data, is_loaded, s) # <<>>)
    IN  MetaSet(MetaSet(MetaSet(md, "source_ius", valid_sources),
                        "all_sources_count", Len(all_sources)),
                "valid_sources_count", Len(valid_sources))

extract_plants(data, md) ==
    IF "IUGUType" \notin DOMAIN data THEN Done(md)
    ELSE
    LET df == data["IUGUType"]
        of_type(t) == Unique(Column(SelectSeq(df.rows, LAMBDA r : r.ptype = t), "code"))
        m1 == MetaSet(md, "plants", Unique(Column(df.rows, "code")))
    IN  IF "IUGU CODE" \notin df.cols THEN Raised(md)
        ELSE IF "PLANT TYPE" \notin df.cols THEN Raised(m1)
        ELSE Done(MetaSet(MetaSet(m1, "iu_plants", of_type("IU")),
                          "gu_plants", of_type("GU")))

extract_sources(data, md) ==
    IF "Logistics" \notin DOMAIN data THEN Done(md)
    ELSE
    LET df == data["Logistics"]
        m1 == MetaSet(md, "all_destinations", Unique(Column(df.rows, "dst")))
        m2 == MetaSet(m1, "transport_modes", Unique(Column(df.rows, "mode")))
    IN  IF "FROM IU CODE" \notin df.cols \/ "TO IUGU CODE" \notin df.cols THEN Raised(md)
        ELSE IF "TRANSPORT CODE" \notin df.cols THEN Raised(m1)
        ELSE Done(MetaSet(m2, "source_ius", Unique(Column(df.rows, "src"))))

extract_periods(data, md) ==
    LET from(sheet) ==
            IF "TIME PERIOD" \notin data[sheet].cols THEN Raised(md)
            ELSE Done(MetaSet(md, "periods",
                              Sorted(Range(Column(data[sheet].rows, "period")))))
    IN  IF "Logistics" \in DOMAIN data THEN from("Logistics")
        ELSE IF "Demand" \in DOMAIN data THEN from("Demand")
        ELSE Done(md)

extract_metadata(data, is_loaded, md) ==
    LET r1 == extract_plants(data, md)
        r2 == IF r1.raised THEN r1 ELSE extract_sources(data, r1.md)
        r3 == IF r2.raised THEN r2 ELSE extract_periods(data, r2.md)
        m4 == MetaSet(r3.md, "record_counts",
                      [s \in DOMAIN data |-> Len(data[s].rows)])
        m5 == IF "Logistics" \in DOMAIN data THEN build_route_index(data, m4) ELSE m4
    IN  IF r3.raised THEN r3
        ELSE Done(filter_sources_with_complete_data(data, is_loaded, m5))

---------------------------------------------------------------------------
(* ExcelDataParser: load operations.  An error message is a record          *)
(* [mark, text]; mark says the message starts with the cross mark that      *)
(* load_from_excel counts as an error.  Each operation yields the parser's  *)
(* fields after the call, whether the call raised, and the success flag of  *)
(* its return value.                                                        *)

Msg(mark, text) == [mark |-> mark, text |-> text]

ReadTable(sheet) ==
    [cols |-> {Strip(h) : h \in sheet.header}, rows |-> sheet.rows]

\* A folder that does not exist holds no file.
FolderSheets(f) == IF f.openable THEN f.sheets ELSE EmptyData

\* load_from_folder treating every sheet as required
load_from_folder_all_required(f, was_loaded) ==
    LET sheets == FolderSheets(f)
        data   == [s \in {x \in DOMAIN sheets : sheets[x].readable} |->
                     ReadTable(sheets[s])]
        error(s) ==
            IF s \notin DOMAIN sheets
            THEN <<Msg(FALSE, "Required file missing: " \o SHEET_CONFIG[s].file)>>
            ELSE IF ~sheets[s].readable
                 THEN <<Msg(FALSE, "Failed to load " \o SHEET_CONFIG[s].file)>>
            ELSE <<>>
        load_errors == Concat([i \in 1..Len(SheetOrder) |-> error(SheetOrder[i])])
        is_loaded   == IF load_errors = <<>> THEN TRUE ELSE was_loaded
        ex == IF load_errors = <<>> THEN extract_metadata(data, is_loaded, EmptyMetadata)
              ELSE Done(EmptyMetadata)
    IN  [data |-> data, metadata |-> ex.md, is_loaded |-> is_loaded,
         load_errors |-> load_errors, raised |-> ex.raised,
         success |-> load_errors = <<>>]

load_from_folder(f, was_loaded) ==
    LET sheets == FolderSheets(f)
        data   == [s \in {x \in DOMAIN sheets : sheets[x].readable} |->
                     ReadTable(sheets[s])]
        error(s) ==
            IF ~SHEET_CONFIG[s].required THEN <<>>
            ELSE IF s \notin DOMAIN sheets
                 THEN <<Msg(FALSE, "Required file missing: " \o SHEET_CONFIG[s].file)>>
            ELSE IF ~sheets[s].readable
                 THEN <<Msg(FALSE, "Failed to load " \o SHEET_CONFIG[s].file)>>
            ELSE <<>>
        load_errors == Concat([i \in 1..Len(SheetOrder) |-> error(SheetOrder[i])])
        is_loaded   == IF load_errors = <<>> THEN TRUE ELSE was_loaded
        ex == IF load_errors = <<>> THEN extract_metadata(data, is_loaded, EmptyMetadata)
              ELSE Done(EmptyMetadata)
    IN  [data |-> data, metadata |-> ex.md, is_loaded |-> is_loaded,
         load_errors |-> load_errors, raised |-> ex.raised,
         success |-> load_errors = <<>>]

load_from_excel(f, was_loaded) ==
    IF ~f.openable
    THEN \* pd.ExcelFile raises; building the return value then raises as
         \* required_sheets was never bound
         [data |-> EmptyData, metadata |-> EmptyMetadata, is_loaded |-> was_loaded,
          load_errors |-> <<Msg(TRUE, "Failed to open Excel file")>>,
          raised |-> TRUE, success |-> FALSE]
    ELSE
    LET sheets == f.sheets
        missing_cols(s) ==
            {c \in SHEET_CONFIG[s].columns :
                Upper(c) \notin {Upper(Strip(h)) : h \in sheets[s].header}}
        stored(s) == /\ s \in DOMAIN sheets
                     /\ sheets[s].readable
                     /\ SHEET_CONFIG[s].required => missing_cols(s) = {}
        data == [s \in {x \in SheetNames : stored(x)} |-> ReadTable(sheets[s])]
        req(i) == SHEET_CONFIG[SheetOrder[i]].required
        missing_sheets ==
            Concat([i \in 1..Len(SheetOrder) |->
                      IF req(i) /\ SheetOrder[i] \notin DOMAIN sheets
                      THEN <<SheetOrder[i]>> ELSE <<>>])
        invalid_columns ==
            Concat([i \in 1..Len(SheetOrder) |->
                      IF /\ req(i)
                         /\ SheetOrder[i] \in DOMAIN sheets
                         /\ sheets[SheetOrder[i]].readable
                         /\ missing_cols(SheetOrder[i]) # {}
                      THEN <<Msg(TRUE, "Sheet missing columns: " \o SheetOrder[i])>>
                      ELSE <<>>])
        validation_errors ==
            Concat([i \in 1..Len(SheetOrder) |->
                      IF /\ req(i)
                         /\ SheetOrder[i] \in DOMAIN sheets
                         /\ ~sheets[SheetOrder[i]].readable
                      THEN <<Msg(TRUE, "Failed to read sheet: " \o SheetOrder[i])>>
                      ELSE <<>>])
        errors ==
            (IF missing_sheets # <<>> THEN <<Msg(TRUE, "Missing required sheets")>> ELSE <<>>)
            \o invalid_columns \o validation_errors
        help ==
            <<Msg(FALSE, ""), Msg(FALSE, "Required sheets and columns:")>>
            \o Concat([i \in 1..Len(SheetOrder) |->
                         IF req(i) THEN <<Msg(FALSE, SheetOrder[i])>> ELSE <<>>])
        is_loaded == IF errors = <<>> THEN TRUE ELSE was_loaded
        ex == IF errors = <<>> THEN extract_metadata(data, is_loaded, EmptyMetadata)
              ELSE Done(EmptyMetadata)
        load_errors ==
            IF errors # <<>> THEN errors \o help
            ELSE IF ex.raised THEN <<Msg(TRUE, "Failed to open Excel file")>>
            ELSE <<>>
    IN  [data |-> data, metadata |-> ex.md, is_loaded |-> is_loaded,
         load_errors |-> load_errors, raised |-> FALSE,
         success |-> \A i \in 1..Len(load_errors) : ~load_errors[i].mark]

validate_complete_dataset(data) ==
    LET missing == {s \in RequiredSheets : s \notin DOMAIN data}
    IN  [complete |-> missing = {}, present |-> RequiredSheets \ missing,
         missing |-> missing]

\* validate_selection with the transport-mode check left out
validate_selection_no_mode(data, metadata, is_loaded, source, destination, mode, period) ==
    IF ~is_loaded THEN <<Msg(FALSE, "No dataset loaded")>>
    ELSE
      (IF source # "" /\ ~Contains(metadata.source_ius, source)
       THEN <<Msg(FALSE, "Source not found in uploaded dataset")>> ELSE <<>>)
      \o
      (IF /\ source # "" /\ destination # ""
          /\ ~Contains(get_destinations_for_source(data, is_loaded, source), destination)
       THEN <<Msg(FALSE, "Route not found in uploaded dataset")>> ELSE <<>>)
      \o
      (IF period # 0 /\ ~Contains(metadata.periods, period)
       THEN <<Msg(FALSE, "Period not found in uploaded dataset")>> ELSE <<>>)

validate_selection(data, metadata, is_loaded, source, destination, mode, period) ==
    IF ~is_loaded THEN <<Msg(FALSE, "No dataset loaded")>>
    ELSE
      (IF source # "" /\ ~Contains(metadata.source_ius, source)
       THEN <<Msg(FALSE, "Source not found in uploaded dataset")>> ELSE <<>>)
      \o
      (IF /\ source # "" /\ destination # ""
          /\ ~Contains(get_destinations_for_source(data, is_loaded, source), destination)
       THEN <<Msg(FALSE, "Route not found in uploaded dataset")>> ELSE <<>>)
      \o
      (IF /\ source # "" /\ destination # "" /\ mode # ""
          /\ ~Contains(get_modes_for_route(data, is_loaded, source, destination), mode)
       THEN <<Msg(FALSE, "Transport mode not available for route")>> ELSE <<>>)
      \o
      (IF period # 0 /\ ~Contains(metadata.periods, period)
       THEN <<Msg(FALSE, "Period not found in uploaded dataset")>> ELSE <<>>)

---------------------------------------------------------------------------
(* ClinkerOptimizer                                                        *)

NOT_AVAILABLE == [kind |-> "na", v |-> 0]

TRANSPORT_INFO ==
    [T1 |-> [name |-> "Road", vehicle_capacity |-> 30],
     T2 |-> [name |-> "Rail", vehicle_capacity |-> 3000],
     T3 |-> [name |-> "Sea",  vehicle_capacity |-> 10000]]

TRANSPORT_MODES ==
    [T1 |-> [name |-> "Road", capacity |-> 30],
     T2 |-> [name |-> "Rail", capacity |-> 3000]]

\* vehicle capacity used when the mode is not in TRANSPORT_MODES
DefaultVehicleCapacity == 30

\* HOLDING_COST_RATE = 0.01, as a divisor: costs are kept in hundredths
HoldingCostDivisor == 100

\* the 0.01 tolerance of the safety-stock checks, in hundredths
ToleranceHundredths == 1

\* df[col] = pd.to_numeric(df[col], errors='coerce') over the numeric
\* columns of every sheet; the frames are the ones the parser holds.
ensure_numeric_columns(data) ==
    LET fields(sheet) ==
            CASE sheet = "Logistics"      -> {<<"FREIGHT COST", "freight">>,
                                              <<"HANDLING COST", "handling">>,
                                              <<"QUANTITY MULTIPLIER", "mult">>}
              [] sheet = "Capacity"       -> {<<"CAPACITY", "capacity">>}
              [] sheet = "Demand"         -> {<<"DEMAND", "demand">>}
              [] sheet = "ProductionCost" -> {<<"PRODUCTION COST", "cost">>}
              [] sheet = "OpeningStock"   -> {<<"OPENING STOCK", "stock">>}
              [] sheet = "ClosingStock"   -> {<<"MIN CLOSE STOCK", "min">>,
                                              <<"MAX CLOSE STOCK", "max">>}
              [] OTHER                    -> {}
        coerced(sheet) ==
            {cf[2] : cf \in {x \in fields(sheet) : x[1] \in data[sheet].cols}}
        row(sheet, r) ==
            [k \in DOMAIN r |-> IF k \in coerced(sheet) THEN to_numeric(r[k]) ELSE r[k]]
    IN  [s \in DOMAIN data |->
           [cols |-> data[s].cols,
            rows |-> [i \in 1..Len(data[s].rows) |-> row(s, data[s].rows[i])]]]

\* _get_value answering 0 when the mask selects no row
get_value_zero_for_no_row(df, mask, column, field) ==
    LET hits == {i \in 1..Len(df.rows) : mask[i]}
        first == CHOOSE i \in hits : \A j \in hits : i <= j
    IN  IF column \notin df.cols THEN NOT_AVAILABLE
        ELSE IF hits = {} THEN Num(0)
        ELSE IF df.rows[first][field].kind # "num" THEN NOT_AVAILABLE
        ELSE df.rows[first][field]

\* _get_value for a numeric column: the cell of the first row the boolean
\* mask selects
get_value(df, mask, column, field) ==
    LET hits == {i \in 1..Len(df.rows) : mask[i]}
        first == CHOOSE i \in hits : \A j \in hits : i <= j
    IN  IF column \notin df.cols THEN NOT_AVAILABLE
        ELSE IF hits = {} THEN NOT_AVAILABLE
        ELSE IF df.rows[first][field].kind # "num" THEN NOT_AVAILABLE
        ELSE df.rows[first][field]

\* _num that answers 1 for a value that is not a number
num_missing_as_one(val, default) == IF val.kind = "num" THEN val.v ELSE 1

num(val, default) == IF val.kind = "num" THEN val.v ELSE default

\* ClinkerOptimizer.get_route_data: every fact of the route, or N/A
get_route_data(data, source, dest, mode, period) ==
    LET route(r)    == r.src = source /\ r.dst = dest /\ r.mode = mode /\ r.period = period
        src_at(r)   == r.code = source /\ r.period = period
        dst_at(r)   == r.code = dest /\ r.period = period
        is_src(r)   == r.code = source
        is_dst(r)   == r.code = dest
        lookup(sheet, Match(_), column, field) ==
            IF sheet \notin DOMAIN data THEN NOT_AVAILABLE
            ELSE get_value(data[sheet],
                           [i \in 1..Len(data[sheet].rows) |-> Match(data[sheet].rows[i])],
                           column, field)
        plant_type(code) ==
            IF "IUGUType" \notin DOMAIN data \/ "PLANT TYPE" \notin data["IUGUType"].cols
            THEN "N/A"
            ELSE LET m == SelectSeq(data["IUGUType"].rows, LAMBDA r : r.code = code)
                 IN  IF m = <<>> THEN "N/A" ELSE m[1].ptype
    IN  [source |-> source, destination |-> dest, mode |-> mode, period |-> period,
         freight_cost        |-> lookup("Logistics", route, "FREIGHT COST", "freight"),
         handling_cost       |-> lookup("Logistics", route, "HANDLING COST", "handling"),
         quantity_multiplier |-> lookup("Logistics", route, "QUANTITY MULTIPLIER", "mult"),
         production_cost     |-> lookup("ProductionCost", src_at, "PRODUCTION COST", "cost"),
         source_capacity     |-> lookup("Capacity", src_at, "CAPACITY", "capacity"),
         source_demand       |-> lookup("Demand", src_at, "DEMAND", "demand"),
         destination_demand  |-> lookup("Demand", dst_at, "DEMAND", "demand"),
         source_opening_stock      |-> lookup("OpeningStock", is_src, "OPENING STOCK", "stock"),
         destination_opening_stock |-> lookup("OpeningStock", is_dst, "OPENING STOCK", "stock"),
         source_closing_min      |-> lookup("ClosingStock", src_at, "MIN CLOSE STOCK", "min"),
         source_closing_max      |-> lookup("ClosingStock", src_at, "MAX CLOSE STOCK", "max"),
         destination_closing_min |-> lookup("ClosingStock", dst_at, "MIN CLOSE STOCK", "min"),
         destination_closing_max |-> lookup("ClosingStock", dst_at, "MAX CLOSE STOCK", "max"),
         source_type      |-> plant_type(source),
         destination_type |-> plant_type(dest)]

Max(a, b) == IF a >= b THEN a ELSE b

\* the division rounded down instead of up
CeilDiv_floor(a, b) == a \div b

\* math.ceil(a / b) for a > 0, b > 0
CeilDiv(a, b) == (a + b - 1) \div b


\* ClinkerOptimizer.calculate_milp_solution.  Money amounts are reported in
\* hundredths (suffix _x100) so that the 1% holding rate stays integral.

\* the floor check without tolerance and strict
ss_satisfied_strict(ending_inv, close_min) == ending_inv > close_min

\* ending_inv >= close_min - 0.01, in hundredths
ss_satisfied(ending_inv, close_min) ==
    100 * ending_inv >= 100 * close_min - ToleranceHundredths

\* the shipment with the destination demand subtracted instead of added
min_shipment_needed_less_demand(d_close_min, d_demand, d_open) ==
    d_close_min - d_demand - d_open

\* X >= SS_dest + D_dest - I_dest[t-1]
min_shipment_needed(d_close_min, d_demand, d_open) ==
    d_close_min + d_demand - d_open

\* the shipment needed, not floored at 0
required_shipment_unfloored(min_needed) == min_needed

\* required_shipment = max(0, min_shipment_needed)
required_shipment(min_needed) == Max(0, min_needed)

\* the production needed computed for a source of any plant type
required_production_any_type(is_iu, s_close_min, shipment_qty, s_demand, s_open) ==
    Max(0, s_close_min + shipment_qty + s_demand - s_open)

\* P >= SS_source + X + D_source - I_source[t-1] for an IU source, else 0
required_production(is_iu, s_close_min, shipment_qty, s_demand, s_open) ==
    IF is_iu THEN Max(0, s_close_min + shipment_qty + s_demand - s_open) ELSE 0

\* the cap applied at a capacity of 0 as well
production_capped_at_any_capacity(is_iu, required, capacity) ==
    is_iu /\ required > capacity

\* if required_production > capacity and capacity > 0 (IU sources only)
production_capped(is_iu, required, capacity) ==
    is_iu /\ required > capacity /\ capacity > 0

\* an absent maximum taken as 0
within_max_absent_as_zero(inv, max) ==
    IF max.kind = "num" THEN inv <= max.v ELSE inv <= 0

\* inv <= (close_max if close_max != float('inf') else inv); an absent
\* maximum is float('inf')
within_max(inv, max) == IF max.kind = "num" THEN inv <= max.v ELSE TRUE

\* the inventory above the minimum, not floored at 0
excess_inv_unfloored(ending_inv, close_min) == ending_inv - close_min

\* max(0, ending_inv - close_min)
excess_inv(ending_inv, close_min) == Max(0, ending_inv - close_min)

\* The calculation on the facts of the route, after route = get_route_data(..)
milp_solution(route, mode) ==
    LET freight     == num(route.freight_cost, 0)
        handling    == num(route.handling_cost, 0)
        prod_cost   == num(route.production_cost, 0)
        capacity    == num(route.source_capacity, 0)
        s_demand    == num(route.source_demand, 0)
        d_demand    == num(route.destination_demand, 0)
        s_open      == num(route.source_opening_stock, 0)
        d_open      == num(route.destination_opening_stock, 0)
        s_close_min == num(route.source_closing_min, 0)
        s_close_max == route.source_closing_max
        d_close_min == num(route.destination_closing_min, 0)
        d_close_max == route.destination_closing_max
        vehicle_capacity ==
            IF mode \in DOMAIN TRANSPORT_MODES THEN TRANSPORT_MODES[mode].capacity
            ELSE DefaultVehicleCapacity
        shipment_needed ==
            required_shipment(min_shipment_needed(d_close_min, d_demand, d_open))
        num_trips ==
            IF vehicle_capacity > 0 /\ shipment_needed > 0
            THEN CeilDiv(shipment_needed, vehicle_capacity) ELSE 0
        shipment_qty == num_trips * vehicle_capacity
        is_iu == route.source_type = "IU"
        required == required_production(is_iu, s_close_min, shipment_qty, s_demand, s_open)
        capped == production_capped(is_iu, required, capacity)
        production == IF capped THEN capacity ELSE required
        capacity_violation == IF capped THEN required - capacity ELSE 0
        source_ending_inv == s_open + production - shipment_qty - s_demand
        dest_ending_inv   == d_open + shipment_qty - d_demand
        source_ss_satisfied == ss_satisfied(source_ending_inv, s_close_min)
        dest_ss_satisfied   == ss_satisfied(dest_ending_inv, d_close_min)
        is_feasible ==
            source_ss_satisfied /\ dest_ss_satisfied /\ capacity_violation = 0
        production_cost_comp == prod_cost * production
        transport_cost_comp  == freight * shipment_qty + handling * shipment_qty
        holding_rate_x100    == IF prod_cost > 0 THEN prod_cost ELSE 0
        source_excess_inv    == excess_inv(source_ending_inv, s_close_min)
        dest_excess_inv      == excess_inv(dest_ending_inv, d_close_min)
        holding_x100 ==
            holding_rate_x100 * source_excess_inv + holding_rate_x100 * dest_excess_inv
        total_Z_x100 ==
            HoldingCostDivisor * (production_cost_comp + transport_cost_comp) + holding_x100
        issues ==
            (IF capacity_violation > 0 THEN <<"capacity">> ELSE <<>>)
            \o (IF ~source_ss_satisfied THEN <<"source_safety_stock">> ELSE <<>>)
            \o (IF ~dest_ss_satisfied THEN <<"destination_safety_stock">> ELSE <<>>)
    IN  [route |-> route,
         decision_variables |->
            [P |-> production, P_minimum_required |-> required,
             X |-> shipment_qty, X_minimum_required |-> shipment_needed,
             X_excess |-> shipment_qty - shipment_needed,
             I_source |-> source_ending_inv, I_source_satisfied |-> source_ss_satisfied,
             I_dest |-> dest_ending_inv, I_dest_satisfied |-> dest_ss_satisfied,
             T |-> num_trips, vehicle_capacity |-> vehicle_capacity],
         objective_function |->
            [production_cost |-> production_cost_comp,
             transport_cost |-> transport_cost_comp,
             holding_rate_x100 |-> holding_rate_x100,
             holding_cost_x100 |-> holding_x100,
             total_Z_x100 |-> total_Z_x100,
             fulfilled_demand |-> d_demand],
         mass_balance |->
            [source_node |-> [I_t_minus_1 |-> s_open, P_t |-> production,
                              outbound |-> shipment_qty, D_t |-> s_demand,
                              I_t |-> source_ending_inv],
             destination_node |-> [I_t_minus_1 |-> d_open, inbound |-> shipment_qty,
                                   D_t |-> d_demand, I_t |-> dest_ending_inv]],
         constraints |->
            [production_capacity |-> [lhs |-> production, rhs |-> capacity,
                                      satisfied |-> production <= capacity],
             inventory_source |->
                [safety_stock |-> s_close_min, max_capacity |-> s_close_max,
                 satisfied |-> /\ s_close_min <= source_ending_inv
                               /\ within_max(source_ending_inv, s_close_max)],
             inventory_destination |->
                [safety_stock |-> d_close_min, max_capacity |-> d_close_max,
                 satisfied |-> /\ d_close_min <= dest_ending_inv
                               /\ within_max(dest_ending_inv, d_close_max)]],
         feasibility |->
            [is_feasible |-> is_feasible, capacity_violation |-> capacity_violation,
             issues |-> issues]]

calculate_milp_solution(data, source, dest, mode, period) ==
    milp_solution(get_route_data(data, source, dest, mode, period), mode)

NoResult == [none |-> TRUE]

---------------------------------------------------------------------------
(* Request handlers (api.py) over the parser and optimizer singletons       *)

MaxQueryPeriod == 3

QuerySources      == {"IU1", "IU2", "IU3"}
QueryDestinations == {"GU1", "GU2"}
QueryModes        == {"T1", "T2", "T9"}
QueryPeriods      == 0..MaxQueryPeriod

LoadOps == {"load_from_folder", "load_from_excel", "load_single_csv"}

Response(op, file, query, status, success, errors, destinations, invoked, result) ==
    [op |-> op, file |-> file, source |-> query[1], destination |-> query[2],
     mode |-> query[3], period |-> query[4], status |-> status, success |-> success,
     errors |-> errors, destinations |-> destinations, invoked |-> invoked,
     result |-> result]

NoQuery == <<"", "", "", 0>>

\* no load request is in progress
NotLoading == [file |-> 0, pos |-> 0]

Init ==
    /\ parser_data = EmptyData
    /\ parser_metadata = EmptyMetadata
    /\ parser_is_loaded = FALSE
    /\ parser_load_errors = <<>>
    /\ optimizer_data = EmptyData
    /\ optimizer_is_loaded = FALSE
    /\ last = Response("init", 0, NoQuery, 200, TRUE, <<>>, <<>>, FALSE, NoResult)
    /\ loading = NotLoading

\* a load handler whose parser keeps the previous index when the load fails
ApplyLoad_keeping_metadata(op, i, r) ==
    /\ parser_metadata' = IF ~r.raised /\ r.success THEN r.metadata ELSE parser_metadata
    /\ parser_is_loaded' = r.is_loaded
    /\ parser_load_errors' = r.load_errors
    /\ IF ~r.raised /\ r.success
       THEN /\ parser_data' = ensure_numeric_columns(r.data)
            /\ optimizer_data' = ensure_numeric_columns(r.data)
            /\ optimizer_is_loaded' = TRUE
       ELSE /\ parser_data' = r.data
            /\ UNCHANGED <<optimizer_data, optimizer_is_loaded>>
    /\ last' = Response(op, i, NoQuery, IF r.raised THEN 500 ELSE 200,
                        ~r.raised /\ r.success,
                        IF r.raised THEN <<>> ELSE r.load_errors,
                        <<>>, FALSE, NoResult)
    /\ UNCHANGED loading

\* What a load handler does with the parser's outcome r: the parser keeps
\* what the call left; on success optimizer.load_data takes the parser's
\* tables and coerces their numeric columns in place.
ApplyLoad(op, i, r) ==
    /\ parser_metadata' = r.metadata
    /\ parser_is_loaded' = r.is_loaded
    /\ parser_load_errors' = r.load_errors
    /\ IF ~r.raised /\ r.success
       THEN /\ parser_data' = ensure_numeric_columns(r.data)
            /\ optimizer_data' = ensure_numeric_columns(r.data)
            /\ optimizer_is_loaded' = TRUE
       ELSE /\ parser_data' = r.data
            /\ UNCHANGED <<optimizer_data, optimizer_is_loaded>>
    /\ last' = Response(op, i, NoQuery, IF r.raised THEN 500 ELSE 200,
                        ~r.raised /\ r.success,
                        IF r.raised THEN <<>> ELSE r.load_errors,
                        <<>>, FALSE, NoResult)
    /\ UNCHANGED loading

\* POST /api/load-folder, /api/load-default, /api/upload-multiple
ApiLoadFromFolder(i) ==
    ApplyLoad("load_from_folder", i, load_from_folder(InputFiles[i], parser_is_loaded))

\* POST /api/upload with a workbook
ApiUploadExcel(i) ==
    ApplyLoad("load_from_excel", i, load_from_excel(InputFiles[i], parser_is_loaded))

\* POST /api/upload with a single CSV file: load_single_csv refuses
ApiUploadCsv ==
    /\ last' = Response("load_single_csv", 0, NoQuery, 200, FALSE,
                        <<Msg(TRUE, "Single CSV file upload is not supported.")>>,
                        <<>>, FALSE, NoResult)
    /\ UNCHANGED <<parser_data, parser_metadata, parser_is_loaded, parser_load_errors,
                   optimizer_data, optimizer_is_loaded, loading>>

\* GET /api/destinations/<source>: the response in a given parser state
get_destinations(data, metadata, is_loaded, source) ==
    IF ~is_loaded
    THEN Response("get_destinations", 0, <<source, "", "", 0>>, 400, FALSE,
                  <<Msg(FALSE, "No dataset loaded")>>, <<>>, FALSE, NoResult)
    ELSE IF ~Contains(metadata.source_ius, source)
    THEN Response("get_destinations", 0, <<source, "", "", 0>>, 400, FALSE,
                  <<Msg(FALSE, "Source not found in uploaded dataset")>>,
                  <<>>, FALSE, NoResult)
    ELSE Response("get_destinations", 0, <<source, "", "", 0>>, 200, TRUE, <<>>,
                  get_destinations_for_source(data, is_loaded, source),
                  FALSE, NoResult)

ApiGetDestinations(source) ==
    /\ last' = get_destinations(parser_data, parser_metadata, parser_is_loaded, source)
    /\ UNCHANGED <<parser_data, parser_metadata, parser_is_loaded, parser_load_errors,
                   optimizer_data, optimizer_is_loaded, loading>>

\* GET /api/modes/<source>/<destination>: the mode details of the response
\* in a given parser state (no details when the request is refused)
get_transport_modes(data, metadata, is_loaded, source, destination) ==
    IF ~is_loaded THEN <<>>
    ELSE IF validate_selection(data, metadata, is_loaded, source, destination, "", 0) # <<>>
    THEN <<>>
    ELSE LET modes == get_modes_for_route(data, is_loaded, source, destination)
         IN  [i \in 1..Len(modes) |->
                IF modes[i] \in DOMAIN TRANSPORT_INFO
                THEN [code |-> modes[i], name |-> TRANSPORT_INFO[modes[i]].name,
                      vehicle_capacity |-> Num(TRANSPORT_INFO[modes[i]].vehicle_capacity)]
                ELSE [code |-> modes[i], name |-> modes[i],
                      vehicle_capacity |-> NOT_AVAILABLE]]

\* the route handler handing the parser's tables to the optimizer on every
\* request
ApiGetRouteData_reloading(source, destination, mode, period) ==
    LET query      == <<source, destination, mode, period>>
        validation == validate_selection(parser_data, parser_metadata, parser_is_loaded,
                                         source, destination, mode, period)
    IN
    /\ last' =
         IF ~parser_is_loaded \/ period = 0 \/ validation # <<>>
         THEN Response("get_route_data", 0, query, 400, FALSE,
                       <<Msg(FALSE, "Rejected")>>, <<>>, FALSE, NoResult)
         ELSE Response("get_route_data", 0, query, 200, TRUE, <<>>, <<>>, TRUE,
                       calculate_milp_solution(parser_data, source, destination,
                                               mode, period))
    /\ optimizer_data' = parser_data
    /\ optimizer_is_loaded' = TRUE
    /\ UNCHANGED <<parser_data, parser_metadata, parser_is_loaded, parser_load_errors,
                   loading>>

\* GET /api/route?source=&destination=&mode=&period=
ApiGetRouteData(source, destination, mode, period) ==
    LET query      == <<source, destination, mode, period>>
        validation == validate_selection(parser_data, parser_metadata, parser_is_loaded,
                                         source, destination, mode, period)
    IN
    /\ last' =
         IF ~parser_is_loaded
         THEN Response("get_route_data", 0, query, 400, FALSE,
                       <<Msg(FALSE, "No dataset loaded")>>, <<>>, FALSE, NoResult)
         ELSE IF source = "" \/ destination = "" \/ mode = "" \/ period = 0
         THEN Response("get_route_data", 0, query, 400, FALSE,
                       <<Msg(FALSE, "Missing parameters")>>, <<>>, FALSE, NoResult)
         ELSE IF validation # <<>>
         THEN Response("get_route_data", 0, query, 400, FALSE, validation,
                       <<>>, FALSE, NoResult)
         ELSE Response("get_route_data", 0, query, 200, TRUE, <<>>, <<>>, TRUE,
                       calculate_milp_solution(optimizer_data, source, destination,
                                               mode, period))
    /\ UNCHANGED <<parser_data, parser_metadata, parser_is_loaded, parser_load_errors,
                   optimizer_data, optimizer_is_loaded, loading>>

Next ==
    \/ \E i \in FileIds : ApiLoadFromFolder(i)
    \/ \E i \in FileIds : ApiUploadExcel(i)
    \/ ApiUploadCsv
    \/ \E s \in QuerySources : ApiGetDestinations(s)
    \/ \E s \in QuerySources, d \in QueryDestinations, m \in QueryModes,
          p \in QueryPeriods : ApiGetRouteData(s, d, m, p)

Spec == Init /\ [][Next]_vars

---------------------------------------------------------------------------
(* The calculator over many datasets: one route IU1 -> GU1 in period 1,     *)
(* served by the modes T1, T2, T3 and T9, and every fact of the route       *)
(* either given for period 1 or not.  A fact that is not given has no row   *)
(* for the period: the capacity, production-cost and destination-demand     *)
(* tables then hold a row of period 2 only, the other tables hold no row of *)
(* the plant.  A source type "N/A" is a plant-type table without a row of   *)
(* the source.                                                              *)

MaxDemandLevel == 2

DemandLevels == {100 * k : k \in 0..MaxDemandLevel}

CalcModes == {"T1", "T2", "T3", "T9"}

CalcCases ==
    [stype    : {"IU", "GU", "N/A"},
     capacity : {NaN, Num(0), Num(100), Num(1000)},
     cost     : {NaN, Num(10)},
     s_open   : {NaN, Num(100)},
     s_min    : {NaN, Num(50)},
     s_demand : {NaN, Num(10)},
     d_demand : {NaN} \cup {Num(n) : n \in DemandLevels},
     d_open   : {NaN, Num(20)},
     d_min    : {NaN, Num(30)}]

CalcRows(c, sheet) ==
    LET given(cell, row)        == IF cell.kind = "num" THEN <<row>> ELSE <<>>
        dated(cell, row, other) == IF cell.kind = "num" THEN <<row>> ELSE <<other>>
    IN
    CASE sheet = "IUGUType" ->
           (IF c.stype = "N/A" THEN <<>> ELSE <<[code |-> "IU1", ptype |-> c.stype]>>)
           \o << [code |-> "GU1", ptype |-> "GU"] >>
      [] sheet = "Logistics" ->
           << LogisticsRow("IU1", "GU1", "T1", 1, Num(5), Num(1)),
              LogisticsRow("IU1", "GU1", "T2", 1, Num(6), Num(1)),
              LogisticsRow("IU1", "GU1", "T3", 1, Num(7), Num(2)),
              LogisticsRow("IU1", "GU1", "T9", 1, Num(9), NaN) >>
      [] sheet = "Demand" ->
           given(c.s_demand, [code |-> "IU1", period |-> 1, demand |-> c.s_demand])
           \o dated(c.d_demand, [code |-> "GU1", period |-> 1, demand |-> c.d_demand],
                    [code |-> "GU1", period |-> 2, demand |-> Num(50)])
      [] sheet = "Capacity" ->
           dated(c.capacity, [code |-> "IU1", period |-> 1, capacity |-> c.capacity],
                 [code |-> "IU1", period |-> 2, capacity |-> Num(500)])
      [] sheet = "ProductionCost" ->
           dated(c.cost, [code |-> "IU1", period |-> 1, cost |-> c.cost],
                 [code |-> "IU1", period |-> 2, cost |-> Num(12)])
      [] sheet = "OpeningStock" ->
           given(c.s_open, [code |-> "IU1", stock |-> c.s_open])
           \o given(c.d_open, [code |-> "GU1", stock |-> c.d_open])
      [] sheet = "ClosingStock" ->
           given(c.s_min, [code |-> "IU1", period |-> 1, min |-> c.s_min, max |-> NaN])
           \o given(c.d_min, [code |-> "GU1", period |-> 1, min |-> c.d_min,
                              max |-> Num(400)])
      [] OTHER -> <<>>

CalcFile(c) ==
    [openable |-> TRUE,
     sheets   |-> [s \in SheetNames |->
                     [readable |-> TRUE,
                      header   |-> SHEET_CONFIG[s].columns,
                      rows     |-> CalcRows(c, s)]]]

\* the state the load handler leaves after loading a folder f into a fresh
\* process
LoadedState(f) ==
    LET r == load_from_folder(f, FALSE)
    IN  /\ parser_data = ensure_numeric_columns(r.data)
        /\ parser_metadata = r.metadata
        /\ parser_is_loaded = r.is_loaded
        /\ parser_load_errors = r.load_errors
        /\ optimizer_data = ensure_numeric_columns(r.data)
        /\ optimizer_is_loaded = TRUE
        /\ last = Response("load_from_folder", 0, NoQuery, 200, TRUE, <<>>, <<>>,
                           FALSE, NoResult)
        /\ loading = NotLoading

InitCalc == \E c \in CalcCases : LoadedState(CalcFile(c))

NextCalc ==
    \/ \E m \in CalcModes : ApiGetRouteData("IU1", "GU1", m, 1)
    \/ ApiGetDestinations("IU1")

SpecCalc == InitCalc /\ [][NextCalc]_vars

---------------------------------------------------------------------------
(* Concurrent request handling: the server runs each request on a thread   *)
(* of its own, so the steps of a folder load interleave with the query     *)
(* handlers.  One load request is in progress at a time; loading.pos is    *)
(* the sheet of SHEET_CONFIG the loop reads next, then the end of          *)
(* load_from_folder, then the handler's optimizer.load_data.               *)

ConcurrentFiles == {1, 8}

\* load_from_folder: the three resets at the start of the call
LoadBegin(i) ==
    /\ loading = NotLoading
    /\ parser_data' = EmptyData
    /\ parser_metadata' = EmptyMetadata
    /\ parser_load_errors' = <<>>
    /\ loading' = [file |-> i, pos |-> 1]
    /\ UNCHANGED <<parser_is_loaded, optimizer_data, optimizer_is_loaded, last>>

\* load_from_folder: one round of the loop over SHEET_CONFIG
LoadSheet ==
    /\ loading.pos \in 1..Len(SheetOrder)
    /\ LET s      == SheetOrder[loading.pos]
           sheets == FolderSheets(InputFiles[loading.file])
       IN  IF s \in DOMAIN sheets /\ sheets[s].readable
           THEN /\ parser_data' =
                     [x \in DOMAIN parser_data \cup {s} |->
                        IF x = s THEN ReadTable(sheets[s]) ELSE parser_data[x]]
                /\ UNCHANGED parser_load_errors
           ELSE /\ parser_load_errors' =
                     parser_load_errors \o
                     (IF ~SHEET_CONFIG[s].required THEN <<>>
                      ELSE IF s \notin DOMAIN sheets
                      THEN <<Msg(FALSE, "Required file missing: " \o SHEET_CONFIG[s].file)>>
                      ELSE <<Msg(FALSE, "Failed to load " \o SHEET_CONFIG[s].file)>>)
                /\ UNCHANGED parser_data
    /\ loading' = [loading EXCEPT !.pos = @ + 1]
    /\ UNCHANGED <<parser_metadata, parser_is_loaded, optimizer_data,
                   optimizer_is_loaded, last>>

\* load_from_folder after the loop: is_loaded, _extract_metadata and the
\* return value; the handler answers at once unless the load succeeded
LoadFinish ==
    /\ loading.pos = Len(SheetOrder) + 1
    /\ IF parser_load_errors # <<>>
       THEN /\ last' = Response("load_from_folder", loading.file, NoQuery, 200, FALSE,
                                parser_load_errors, <<>>, FALSE, NoResult)
            /\ loading' = NotLoading
            /\ UNCHANGED <<parser_metadata, parser_is_loaded>>
       ELSE LET ex == extract_metadata(parser_data, TRUE, parser_metadata)
            IN  /\ parser_is_loaded' = TRUE
                /\ parser_metadata' = ex.md
                /\ IF ex.raised
                   THEN /\ last' = Response("load_from_folder", loading.file, NoQuery,
                                            500, FALSE, <<>>, <<>>, FALSE, NoResult)
                        /\ loading' = NotLoading
                   ELSE /\ loading' = [loading EXCEPT !.pos = @ + 1]
                        /\ UNCHANGED last
    /\ UNCHANGED <<parser_data, parser_load_errors, optimizer_data, optimizer_is_loaded>>

\* the load handler after a successful load_from_folder:
\* optimizer.load_data(parser.data), then the response
LoadOptimizer ==
    /\ loading.pos = Len(SheetOrder) + 2
    /\ parser_data' = ensure_numeric_columns(parser_data)
    /\ optimizer_data' = ensure_numeric_columns(parser_data)
    /\ optimizer_is_loaded' = TRUE
    /\ last' = Response("load_from_folder", loading.file, NoQuery, 200, TRUE, <<>>, <<>>,
                        FALSE, NoResult)
    /\ loading' = NotLoading
    /\ UNCHANGED <<parser_metadata, parser_is_loaded, parser_load_errors>>

NextConcurrent ==
    \/ \E i \in ConcurrentFiles : LoadBegin(i)
    \/ LoadSheet
    \/ LoadFinish
    \/ LoadOptimizer
    \/ \E s \in QuerySources : ApiGetDestinations(s)
    \/ \E d \in QueryDestinations : ApiGetRouteData("IU1", d, "T1", 1)

SpecConcurrent == Init /\ [][NextConcurrent]_vars

---------------------------------------------------------------------------
(* The route index over many route tables: two sources and two             *)
(* destinations whose codes contain the separator of the index keys, every  *)
(* pair served by any set of modes, and every pair complete.                *)

MaxRouteModes == 2

IndexModeCodes == <<"T1", "T2", "T3", "T9">>

IndexModes == {IndexModeCodes[i] : i \in 1..MaxRouteModes}

IndexSources      == {"IU", "IU_X"}
IndexDestinations == {"GU", "X_GU"}

IndexPairs == << <<"IU", "GU">>, <<"IU", "X_GU">>, <<"IU_X", "GU">>, <<"IU_X", "X_GU">> >>

\* the modes that serve each pair of IndexPairs
IndexCases == [1..Len(IndexPairs) -> SUBSET IndexModes]

IndexRows(c, sheet) ==
    LET route(p, i) ==
            IF IndexModeCodes[i] \in c[p]
            THEN <<LogisticsRow(IndexPairs[p][1], IndexPairs[p][2], IndexModeCodes[i],
                                1, Num(5), Num(1))>>
            ELSE <<>>
        routes(p) == Concat([i \in 1..MaxRouteModes |-> route(p, i)])
    IN
    CASE sheet = "IUGUType" ->
           << [code |-> "IU", ptype |-> "IU"], [code |-> "IU_X", ptype |-> "IU"],
              [code |-> "GU", ptype |-> "GU"], [code |-> "X_GU", ptype |-> "GU"] >>
      [] sheet = "Logistics" -> Concat([p \in 1..Len(IndexPairs) |-> routes(p)])
      [] sheet = "Demand" ->
           << [code |-> "GU", period |-> 1, demand |-> Num(100)],
              [code |-> "X_GU", period |-> 1, demand |-> Num(200)] >>
      [] sheet = "Capacity" ->
           << [code |-> "IU", period |-> 1, capacity |-> Num(1000)],
              [code |-> "IU_X", period |-> 1, capacity |-> Num(500)] >>
      [] sheet = "ProductionCost" ->
           << [code |-> "IU", period |-> 1, cost |-> Num(10)],
              [code |-> "IU_X", period |-> 1, cost |-> Num(12)] >>
      [] OTHER -> <<>>

IndexFile(c) ==
    [openable |-> TRUE,
     sheets   |-> [s \in SheetNames |->
                     [readable |-> TRUE,
                      header   |-> SHEET_CONFIG[s].columns,
                      rows     |-> IndexRows(c, s)]]]

\* GET /api/modes/<source>/<destination>
ApiGetModes(source, destination) ==
    LET query      == <<source, destination, "", 0>>
        validation == validate_selection(parser_data, parser_metadata, parser_is_loaded,
                                         source, destination, "", 0)
    IN
    /\ last' =
         IF ~parser_is_loaded
         THEN Response("get_transport_modes", 0, query, 400, FALSE,
                       <<Msg(FALSE, "No dataset loaded")>>, <<>>, FALSE, [modes |-> <<>>])
         ELSE IF validation # <<>>
         THEN Response("get_transport_modes", 0, query, 400, FALSE, validation,
                       <<>>, FALSE, [modes |-> <<>>])
         ELSE Response("get_transport_modes", 0, query, 200, TRUE, <<>>, <<>>, FALSE,
                       [modes |-> get_transport_modes(parser_data, parser_metadata,
                                                      parser_is_loaded, source,
                                                      destination)])
    /\ UNCHANGED <<parser_data, parser_metadata, parser_is_loaded, parser_load_errors,
                   optimizer_data, optimizer_is_loaded, loading>>

InitIndex == \E c \in IndexCases : LoadedState(IndexFile(c))

NextIndex ==
    \/ \E s \in IndexSources, d \in IndexDestinations : ApiGetModes(s, d)
    \/ \E s \in IndexSources : ApiGetDestinations(s)

SpecIndex == InitIndex /\ [][NextIndex]_vars

---------------------------------------------------------------------------
(* Vocabulary of the properties, stated on the tables themselves            *)

PlantCodes == QuerySources \cup QueryDestinations

RealLoadOps == {"load_from_folder", "load_from_excel"}

HasRow(data, sheet, Match(_)) ==
    /\ sheet \in DOMAIN data
    /\ \E i \in 1..Len(data[sheet].rows) : Match(data[sheet].rows[i])

\* the four completeness conditions of a (source, destination) pair
FreightCondition(data, s, d) ==
    /\ "Logistics" \in DOMAIN data
    /\ "FREIGHT COST" \in data["Logistics"].cols
    /\ HasRow(data, "Logistics", LAMBDA r : r.src = s /\ r.dst = d /\ ~IsNa(r.freight))

ProductionCostCondition(data, s) == HasRow(data, "ProductionCost", LAMBDA r : r.code = s)
CapacityCondition(data, s)       == HasRow(data, "Capacity", LAMBDA r : r.code = s)
DemandCondition(data, d)         == HasRow(data, "Demand", LAMBDA r : r.code = d)

FourConditions(data, s, d) ==
    /\ FreightCondition(data, s, d)
    /\ ProductionCostCondition(data, s)
    /\ CapacityCondition(data, s)
    /\ DemandCondition(data, d)

\* a table is present in the sense of the schema contract
SchemaValid(cols, sheet) ==
    \A c \in SHEET_CONFIG[sheet].columns : Upper(c) \in {Upper(Strip(h)) : h \in cols}

\* every required sheet of an input file is present, readable and carries
\* each column of its schema entry under the schema's name (after stripping)
RequiredValid(f) ==
    /\ f.openable
    /\ \A s \in RequiredSheets :
         /\ s \in DOMAIN f.sheets
         /\ f.sheets[s].readable
         /\ SHEET_CONFIG[s].columns \subseteq {Strip(h) : h \in f.sheets[s].header}

OptionalSheets == SheetNames \ RequiredSheets

\* the state a failed load has just left behind
AfterFailedLoad == last.op \in RealLoadOps /\ ~last.success

AfterSuccessfulLoad == last.op \in RealLoadOps /\ last.success

---------------------------------------------------------------------------
(* Properties                                                               *)

\* C1: a load that reports failure leaves the parser's dataset, its
\* metadata/index and its loaded flag exactly as they were before the call.
C1_FailedLoadLeavesDatasetUntouched ==
    [][(last'.op \in RealLoadOps /\ last'.status = 200 /\ ~last'.success)
        => UNCHANGED <<parser_data, parser_metadata, parser_is_loaded>>]_vars

\* C2: whenever the parser reports is_loaded, every required table is in its
\* data and carries every required column of its schema entry (names compared
\* case-insensitively after stripping).
C2_LoadedImpliesCompleteDataset ==
    parser_is_loaded =>
        \A s \in RequiredSheets :
            /\ s \in DOMAIN parser_data
            /\ SchemaValid(parser_data[s].cols, s)

C4_ExposedPairsAreComplete ==
    \A s \in PlantCodes :
        \A d \in Range(get_destinations_for_source(parser_data, parser_is_loaded, s)) :
            FourConditions(parser_data, s, d)

\* C4 witness: the destinations request has answered with an exposed pair.
C4_Witness ==
    /\ last.op = "get_destinations"
    /\ last.destinations # <<>>
    /\ FourConditions(parser_data, last.source, last.destinations[1])

\* C5: a pair is reported complete if and only if the four conditions hold,
\* whichever of its route rows carries the freight cost.
C5_CompleteIffFourConditions ==
    parser_is_loaded =>
        \A s \in PlantCodes, d \in PlantCodes :
            has_complete_data(parser_data, s, d) <=> FourConditions(parser_data, s, d)

\* C6: after a successful load a source is in the valid-source list iff it is
\* a route source with at least one complete destination, and every listed
\* source has a non-empty destination list.
C6_ValidSourcesHaveDestinations ==
    AfterSuccessfulLoad =>
        \A s \in PlantCodes :
            /\ Contains(parser_metadata.source_ius, s)
                 <=> /\ HasRow(parser_data, "Logistics", LAMBDA r : r.src = s)
                     /\ \E d \in PlantCodes : FourConditions(parser_data, s, d)
            /\ Contains(parser_metadata.source_ius, s)
                 => get_destinations_for_source(parser_data, parser_is_loaded, s) # <<>>

\* C7: the destinations request answers with an empty list whenever the
\* source is not in the valid-source list, no dataset is loaded, or the last
\* load failed.
C7_NoDestinationsWithoutDataset ==
    \A s \in PlantCodes :
        (\/ ~parser_is_loaded
         \/ ~Contains(parser_metadata.source_ius, s)
         \/ AfterFailedLoad)
        => get_destinations(parser_data, parser_metadata, parser_is_loaded, s).destinations
             = <<>>

\* C8: a route request whose source is not valid, whose destination is not a
\* complete destination of the source, whose mode is not a mode of the pair or
\* whose period is not a known period (0 included) is answered with reasons
\* and without invoking the calculator.
InvalidTuple(s, d, m, p) ==
    \/ ~parser_is_loaded
    \/ ~Contains(parser_metadata.source_ius, s)
    \/ ~FourConditions(parser_data, s, d)
    \/ ~HasRow(parser_data, "Logistics", LAMBDA r : r.src = s /\ r.dst = d /\ r.mode = m)
    \/ ~HasRow(parser_data, "Logistics", LAMBDA r : r.period = p)

C8_InvalidTupleIsRejected ==
    (/\ last.op = "get_route_data"
     /\ InvalidTuple(last.source, last.destination, last.mode, last.period))
    => /\ ~last.success
       /\ last.errors # <<>>
       /\ ~last.invoked
       /\ last.result = NoResult

\* C8 witness: a request for period 0 against a loaded dataset, on a pair and
\* mode that are otherwise valid, has been rejected.
C8_Witness ==
    /\ last.op = "get_route_data"
    /\ last.period = 0
    /\ parser_is_loaded
    /\ Contains(parser_metadata.source_ius, last.source)
    /\ FourConditions(parser_data, last.source, last.destination)
    /\ ~last.success
    /\ ~last.invoked

\* C9: a route request for a tuple with no logistics row for that exact
\* tuple is answered with validation errors and no computation.
C9_MissingRouteRowIsRejected ==
    (/\ last.op = "get_route_data"
     /\ ~HasRow(parser_data, "Logistics",
                LAMBDA r : /\ r.src = last.source /\ r.dst = last.destination
                           /\ r.mode = last.mode /\ r.period = last.period))
    => ~last.success /\ ~last.invoked

\* C10: a route request for a period in which the destination has no demand
\* row is answered with a selection error, never with a computed result.
C10_MissingDemandIsRejected ==
    (/\ last.op = "get_route_data"
     /\ HasRow(parser_data, "Demand", LAMBDA r : r.code = last.destination)
     /\ ~HasRow(parser_data, "Demand",
                LAMBDA r : r.code = last.destination /\ r.period = last.period))
    => ~last.success /\ ~last.invoked

\* a route request that reached the calculator
Computed == last.op = "get_route_data" /\ last.invoked

\* C11: in every computed result the shipment quantity is the trip count
\* times the vehicle capacity, is at least the required shipment, exceeds it
\* by less than one vehicle, and the trip count is 0 exactly when the
\* required shipment is 0.
C11_TripRoundingLaw ==
    Computed =>
        LET dv == last.result.decision_variables
        IN  /\ dv.X = dv.T * dv.vehicle_capacity
            /\ dv.X >= dv.X_minimum_required
            /\ dv.X - dv.X_minimum_required < dv.vehicle_capacity
            /\ dv.T = 0 <=> dv.X_minimum_required = 0

C11_Witness ==
    /\ Computed
    /\ last.result.decision_variables.T > 1
    /\ last.result.decision_variables.X > last.result.decision_variables.X_minimum_required

\* a raw fact of the result's route section, with a missing one taken as 0
ValueOrZero(cell) == IF cell.kind = "num" THEN cell.v ELSE 0

\* C12: in every computed result the source ending inventory is opening
\* stock + production - shipment - source demand, the destination ending
\* inventory is opening stock + shipment - destination demand, missing facts
\* counting as 0, and the mass-balance section and the decision variables
\* report the same values.
C12_MassBalanceLaw ==
    Computed =>
        LET r  == last.result.route
            dv == last.result.decision_variables
            sn == last.result.mass_balance.source_node
            dn == last.result.mass_balance.destination_node
        IN  /\ sn.I_t = ValueOrZero(r.source_opening_stock) + dv.P - dv.X
                        - ValueOrZero(r.source_demand)
            /\ dn.I_t = ValueOrZero(r.destination_opening_stock) + dv.X
                        - ValueOrZero(r.destination_demand)
            /\ sn.I_t_minus_1 = ValueOrZero(r.source_opening_stock)
            /\ sn.D_t = ValueOrZero(r.source_demand)
            /\ dn.I_t_minus_1 = ValueOrZero(r.destination_opening_stock)
            /\ dn.D_t = ValueOrZero(r.destination_demand)
            /\ sn.P_t = dv.P /\ sn.outbound = dv.X /\ dn.inbound = dv.X
            /\ sn.I_t = dv.I_source /\ dn.I_t = dv.I_dest

C12_Witness ==
    /\ Computed
    /\ last.result.route.source_opening_stock = NOT_AVAILABLE
    /\ last.result.route.destination_demand # NOT_AVAILABLE
    /\ last.result.decision_variables.P > 0
    /\ last.result.decision_variables.X > 0
    /\ last.result.decision_variables.I_dest > 0

\* the dataset with the destination's demand of one period set to n
WithDestinationDemand(data, dest, period, n) ==
    [data EXCEPT !["Demand"].rows =
        [i \in 1..Len(@) |->
            IF @[i].code = dest /\ @[i].period = period
            THEN [@[i] EXCEPT !.demand = Num(n)] ELSE @[i]]]

\* the destination demand of the queried period, when the table gives one
DemandGiven == last.result.route.destination_demand # NOT_AVAILABLE

\* the result of the last query over the dataset with the demand set to n
ResultWithDemand(n) ==
    calculate_milp_solution(
        WithDestinationDemand(optimizer_data, last.destination, last.period, n),
        last.source, last.destination, last.mode, last.period)

\* C13: over a dataset that differs from the queried one only in a larger
\* (or equal) destination demand of the queried period, the required
\* shipment and the trip count are not smaller.
C13_DemandMonotonicity ==
    (Computed /\ DemandGiven) =>
        \A n \in DemandLevels :
            n >= last.result.route.destination_demand.v =>
                LET dv1 == last.result.decision_variables
                    dv2 == ResultWithDemand(n).decision_variables
                IN  /\ dv2.X_minimum_required >= dv1.X_minimum_required
                    /\ dv2.T >= dv1.T

C13_Witness ==
    /\ Computed
    /\ DemandGiven
    /\ \E n \in DemandLevels :
          /\ n > last.result.route.destination_demand.v
          /\ ResultWithDemand(n).decision_variables.T > last.result.decision_variables.T
          /\ last.result.decision_variables.T > 0

\* an ending inventory meets a closing-stock minimum within the tolerance
MeetsFloor(inv, floor) == 100 * inv >= 100 * floor - ToleranceHundredths

\* C14: the feasibility verdict of a computed result is true exactly when
\* its capacity violation is 0 and the source and the destination ending
\* inventories both meet their closing-stock minimum within the tolerance.
C14_FeasibilityVerdict ==
    Computed =>
        LET r  == last.result.route
            dv == last.result.decision_variables
            f  == last.result.feasibility
        IN  f.is_feasible <=>
               /\ f.capacity_violation = 0
               /\ MeetsFloor(dv.I_source, ValueOrZero(r.source_closing_min))
               /\ MeetsFloor(dv.I_dest, ValueOrZero(r.destination_closing_min))

C14_Witness ==
    /\ Computed
    /\ last.result.feasibility.is_feasible
    /\ last.result.route.source_closing_min # NOT_AVAILABLE
    /\ last.result.decision_variables.I_source = last.result.route.source_closing_min.v
    /\ last.result.decision_variables.P > 0

\* an infeasible result whose capacity violation is 0
C14_WitnessInfeasible ==
    /\ Computed
    /\ ~last.result.feasibility.is_feasible
    /\ last.result.feasibility.capacity_violation = 0

\* C15: a computed result reported as feasible has its production-capacity
\* check (production <= capacity) satisfied.
C15_FeasibleRespectsCapacity ==
    (Computed /\ last.result.feasibility.is_feasible)
        => last.result.constraints.production_capacity.satisfied

IssueNames == {"capacity", "source_safety_stock", "destination_safety_stock"}

\* the messages of a set, in the order capacity, source, destination
IssueList(S) ==
    (IF "capacity" \in S THEN <<"capacity">> ELSE <<>>)
    \o (IF "source_safety_stock" \in S THEN <<"source_safety_stock">> ELSE <<>>)
    \o (IF "destination_safety_stock" \in S THEN <<"destination_safety_stock">> ELSE <<>>)

\* the issue list the calculator gives for mode m over the dataset of case c
CaseIssues(c, m) ==
    calculate_milp_solution(
        ensure_numeric_columns(load_from_folder(CalcFile(c), FALSE).data),
        "IU1", "GU1", m, 1).feasibility.issues

\* the messages the reported values of the last result call for
IssuesDue ==
    LET r  == last.result.route
        dv == last.result.decision_variables
    IN  (IF last.result.feasibility.capacity_violation > 0 THEN {"capacity"} ELSE {})
        \cup (IF ~MeetsFloor(dv.I_source, ValueOrZero(r.source_closing_min))
              THEN {"source_safety_stock"} ELSE {})
        \cup (IF ~MeetsFloor(dv.I_dest, ValueOrZero(r.destination_closing_min))
              THEN {"destination_safety_stock"} ELSE {})

\* C16: the issue list of a computed result holds the capacity message
\* exactly when the capacity violation is > 0, the source message exactly
\* when the source floor check fails, the destination message exactly when
\* the destination floor check fails, in that order; and every subset of
\* the three messages is the issue list of some input.
C16_IssueListAndSubsets ==
    /\ Computed => last.result.feasibility.issues = IssueList(IssuesDue)
    /\ \A S \in SUBSET IssueNames :
          \E c \in CalcCases, m \in CalcModes : CaseIssues(c, m) = IssueList(S)

\* C17: a route request changes neither the tables, the metadata and index,
\* nor the loaded flags of parser and optimizer, and a request that repeats
\* the tuple of the request answered just before it gets the same response.
C17_ComputeRouteIsPure ==
    [][last'.op = "get_route_data" =>
          /\ UNCHANGED <<parser_data, parser_metadata, parser_is_loaded,
                         parser_load_errors, optimizer_data, optimizer_is_loaded>>
          /\ (/\ last.op = "get_route_data"
              /\ last.source = last'.source /\ last.destination = last'.destination
              /\ last.mode = last'.mode /\ last.period = last'.period)
             => last' = last]_vars

C17_Witness ==
    /\ Computed
    /\ last.result.decision_variables.T > 0
    /\ parser_is_loaded /\ optimizer_is_loaded
    /\ parser_data = optimizer_data

\* the dataset, index and calculator data a complete load of file i leaves
Snapshot(i) ==
    LET r == load_from_folder(InputFiles[i], FALSE)
    IN  [data |-> ensure_numeric_columns(r.data), metadata |-> r.metadata,
         is_loaded |-> TRUE]

\* the state before any load
NoSnapshot == [data |-> EmptyData, metadata |-> EmptyMetadata, is_loaded |-> FALSE]

\* the response held in last is the one the query gets over snapshot S
AnsweredFrom(S) ==
    LET errors == validate_selection(S.data, S.metadata, S.is_loaded, last.source,
                                     last.destination, last.mode, last.period)
    IN  CASE last.op = "get_destinations" ->
               last = get_destinations(S.data, S.metadata, S.is_loaded, last.source)
          [] last.op = "get_route_data" ->
               IF ~S.is_loaded \/ last.period = 0 \/ errors # <<>>
               THEN ~last.invoked
               ELSE /\ last.invoked
                    /\ last.result = calculate_milp_solution(S.data, last.source,
                                         last.destination, last.mode, last.period)
          [] OTHER -> TRUE

\* C18: with concurrent request handling, the answer to a query is the
\* answer over a complete snapshot: the state before any load or the
\* tables, index and calculator data of one completed load.
C18_QueriesSeeCompleteSnapshots ==
    \E S \in {NoSnapshot} \cup {Snapshot(i) : i \in ConcurrentFiles} : AnsweredFrom(S)

\* the calculator's table has no row of the plant (for the queried period)
NoRowAt(sheet, code) ==
    ~HasRow(optimizer_data, sheet, LAMBDA r : r.code = code /\ r.period = last.period)

NoStockRow(code) ==
    ~HasRow(optimizer_data, "OpeningStock", LAMBDA r : r.code = code)

\* the last request passes the handler's checks
Validated ==
    /\ last.op = "get_route_data"
    /\ parser_is_loaded
    /\ last.period # 0
    /\ validate_selection(parser_data, parser_metadata, parser_is_loaded, last.source,
                          last.destination, last.mode, last.period) = <<>>

\* C19: a validated request gets a full result whatever rows are absent; a
\* fact whose row is absent is reported as unavailable in the route section
\* and counts as 0 in the formulas, an absent closing-stock maximum as no
\* upper bound.
C19_MissingFactsFlowThrough ==
    Validated =>
        /\ Computed /\ last.success /\ last.result # NoResult
        /\ LET r  == last.result.route
               c  == last.result.constraints
               sn == last.result.mass_balance.source_node
               dn == last.result.mass_balance.destination_node
               dv == last.result.decision_variables
           IN  /\ NoRowAt("Capacity", last.source) =>
                     r.source_capacity = NOT_AVAILABLE /\ c.production_capacity.rhs = 0
               /\ NoRowAt("ProductionCost", last.source) =>
                     /\ r.production_cost = NOT_AVAILABLE
                     /\ last.result.objective_function.production_cost = 0
               /\ NoRowAt("Demand", last.source) =>
                     r.source_demand = NOT_AVAILABLE /\ sn.D_t = 0
               /\ NoRowAt("Demand", last.destination) =>
                     r.destination_demand = NOT_AVAILABLE /\ dn.D_t = 0
               /\ NoStockRow(last.source) =>
                     r.source_opening_stock = NOT_AVAILABLE /\ sn.I_t_minus_1 = 0
               /\ NoStockRow(last.destination) =>
                     r.destination_opening_stock = NOT_AVAILABLE /\ dn.I_t_minus_1 = 0
               /\ NoRowAt("ClosingStock", last.source) =>
                     /\ r.source_closing_min = NOT_AVAILABLE
                     /\ r.source_closing_max = NOT_AVAILABLE
                     /\ c.inventory_source.safety_stock = 0
                     /\ c.inventory_source.satisfied <=> dv.I_source >= 0
               /\ NoRowAt("ClosingStock", last.destination) =>
                     /\ r.destination_closing_min = NOT_AVAILABLE
                     /\ r.destination_closing_max = NOT_AVAILABLE
                     /\ c.inventory_destination.safety_stock = 0
                     /\ c.inventory_destination.satisfied <=> dv.I_dest >= 0

C19_Witness ==
    /\ Validated /\ Computed
    /\ NoRowAt("Capacity", last.source)
    /\ NoRowAt("Demand", last.destination)
    /\ NoStockRow(last.destination)
    /\ NoRowAt("ClosingStock", last.destination)
    /\ last.result.decision_variables.P > 0

\* a mode of neither reference table
UnknownMode(m) == m \notin DOMAIN TRANSPORT_INFO /\ m \notin DOMAIN TRANSPORT_MODES

\* C20: a mode of the route table that is in no reference table is usable
\* for routing, and both the mode list of its route and a result computed
\* for it report its vehicle capacity as unavailable.
C20_UnknownModeHasNoCapacity ==
    (Validated /\ UnknownMode(last.mode)) =>
        /\ Computed
        /\ \E i \in 1..Len(get_transport_modes(parser_data, parser_metadata,
                               parser_is_loaded, last.source, last.destination)) :
              LET detail == get_transport_modes(parser_data, parser_metadata,
                                parser_is_loaded, last.source, last.destination)[i]
              IN  detail.code = last.mode /\ detail.vehicle_capacity = NOT_AVAILABLE
        /\ Num(last.result.decision_variables.vehicle_capacity) = NOT_AVAILABLE

\* C21: the required shipment of a computed result is the destination
\* closing-stock minimum + destination demand - destination opening stock,
\* missing facts counting as 0, floored at 0; for a destination with
\* opening stock 20, minimum 30 and demand 200 served by T1 it is 210, in
\* 7 trips carrying 210.
C21_RequiredShipment ==
    Computed =>
        LET r  == last.result.route
            dv == last.result.decision_variables
            needed == ValueOrZero(r.destination_closing_min)
                      + ValueOrZero(r.destination_demand)
                      - ValueOrZero(r.destination_opening_stock)
        IN  /\ dv.X_minimum_required = IF needed > 0 THEN needed ELSE 0
            /\ (/\ last.mode = "T1"
                /\ r.destination_opening_stock = Num(20)
                /\ r.destination_closing_min = Num(30)
                /\ r.destination_demand = Num(200))
               => (dv.X_minimum_required = 210 /\ dv.T = 7 /\ dv.X = 210)

\* Scenario A has been computed
C21_Witness ==
    /\ Computed
    /\ last.mode = "T1"
    /\ last.result.route.destination_opening_stock = Num(20)
    /\ last.result.route.destination_closing_min = Num(30)
    /\ last.result.route.destination_demand = Num(200)
    /\ last.result.decision_variables.X_minimum_required = 210

\* the floor at 0 has acted: the destination holds more than it needs
C21_WitnessFloored ==
    /\ Computed
    /\ ValueOrZero(last.result.route.destination_opening_stock)
         > ValueOrZero(last.result.route.destination_closing_min)
           + ValueOrZero(last.result.route.destination_demand)
    /\ last.result.decision_variables.X_minimum_required = 0

\* C22: when the source's plant type is IU the required production of a
\* computed result is source closing-stock minimum + shipment quantity +
\* source demand - source opening stock, missing facts counting as 0,
\* floored at 0; for any other or an unavailable type the production, the
\* required production and the capacity violation are all 0 whatever the
\* capacity.
C22_RequiredProduction ==
    Computed =>
        LET r  == last.result.route
            dv == last.result.decision_variables
            needed == ValueOrZero(r.source_closing_min) + dv.X
                      + ValueOrZero(r.source_demand)
                      - ValueOrZero(r.source_opening_stock)
        IN  IF r.source_type = "IU"
            THEN dv.P_minimum_required = IF needed > 0 THEN needed ELSE 0
            ELSE /\ dv.P = 0
                 /\ dv.P_minimum_required = 0
                 /\ last.result.feasibility.capacity_violation = 0

\* a source without a plant type ships more than its capacity and its
\* stock allow, and produces nothing
C22_Witness ==
    /\ Computed
    /\ last.result.route.source_type = "N/A"
    /\ last.result.route.source_capacity = Num(100)
    /\ last.result.decision_variables.X
         > 100 + ValueOrZero(last.result.route.source_opening_stock)
    /\ last.result.decision_variables.P = 0

\* an IU source that has to produce
C22_WitnessProducing ==
    /\ Computed
    /\ last.result.route.source_type = "IU"
    /\ last.result.decision_variables.P_minimum_required > 0

\* C23: for an IU source whose required production exceeds a capacity > 0
\* the production of a computed result is the capacity and the capacity
\* violation is required production - capacity; otherwise the production
\* is the required production and the violation is 0; the production never
\* exceeds the required production.  With capacity 100 and required
\* production 160 the production is 100, the violation 60, and the result
\* is infeasible with the capacity message among its issues.
C23_ProductionCap ==
    Computed =>
        LET r   == last.result.route
            dv  == last.result.decision_variables
            f   == last.result.feasibility
            cap == ValueOrZero(r.source_capacity)
        IN  /\ IF r.source_type = "IU" /\ dv.P_minimum_required > cap /\ cap > 0
               THEN /\ dv.P = cap
                    /\ f.capacity_violation = dv.P_minimum_required - cap
                    /\ f.capacity_violation > 0
               ELSE /\ dv.P = dv.P_minimum_required
                    /\ f.capacity_violation = 0
            /\ dv.P <= dv.P_minimum_required
            /\ (r.source_type = "IU" /\ cap = 100 /\ dv.P_minimum_required = 160)
               => /\ dv.P = 100
                  /\ f.capacity_violation = 60
                  /\ ~f.is_feasible
                  /\ Contains(f.issues, "capacity")

\* Scenario B has been computed
C23_Witness ==
    /\ Computed
    /\ last.mode = "T1"
    /\ last.result.route.source_type = "IU"
    /\ last.result.route.source_capacity = Num(100)
    /\ last.result.decision_variables.X = 210
    /\ last.result.decision_variables.P_minimum_required = 160
    /\ last.result.decision_variables.P = 100

\* the inventory-bound check the claim states: the minimum, 0 when absent,
\* is at most the ending inventory, which is at most the maximum when one
\* is given
WithinBounds(inv, min, max) ==
    /\ ValueOrZero(min) <= inv
    /\ max.kind = "num" => inv <= max.v

\* C24: in the inventory-bound checks of a computed result an absent
\* closing-stock minimum acts as 0 and an absent closing-stock maximum as
\* no bound: the source and the destination check are satisfied exactly
\* when minimum-or-0 <= ending inventory and, if a maximum is given,
\* ending inventory <= maximum.
C24_InventoryBounds ==
    Computed =>
        LET r  == last.result.route
            dv == last.result.decision_variables
            c  == last.result.constraints
        IN  /\ c.inventory_source.satisfied
                 <=> WithinBounds(dv.I_source, r.source_closing_min, r.source_closing_max)
            /\ c.inventory_destination.satisfied
                 <=> WithinBounds(dv.I_dest, r.destination_closing_min,
                                  r.destination_closing_max)
            /\ c.inventory_source.safety_stock = ValueOrZero(r.source_closing_min)
            /\ c.inventory_destination.safety_stock
                 = ValueOrZero(r.destination_closing_min)

\* a source without minimum and maximum that does not end below 0 passes
\* its check, while the destination ends above its maximum and fails its own
C24_Witness ==
    /\ Computed
    /\ last.result.route.source_closing_min = NOT_AVAILABLE
    /\ last.result.route.source_closing_max = NOT_AVAILABLE
    /\ last.result.decision_variables.I_source >= 0
    /\ last.result.constraints.inventory_source.satisfied
    /\ last.result.route.destination_closing_max = Num(400)
    /\ last.result.decision_variables.I_dest > 400
    /\ ~last.result.constraints.inventory_destination.satisfied

\* a source without a minimum that ends below 0 fails its check
C24_WitnessBelowZero ==
    /\ Computed
    /\ last.result.route.source_closing_min = NOT_AVAILABLE
    /\ last.result.decision_variables.I_source < 0
    /\ ~last.result.constraints.inventory_source.satisfied

\* a source without a maximum that ends with stock passes its check
C24_WitnessUnbounded ==
    /\ Computed
    /\ last.result.route.source_closing_max = NOT_AVAILABLE
    /\ last.result.decision_variables.I_source > 0
    /\ last.result.constraints.inventory_source.satisfied

\* the inventory a node holds above its closing-stock minimum
HeldAbove(inv, min) ==
    IF inv > ValueOrZero(min) THEN inv - ValueOrZero(min) ELSE 0

\* C25: the total objective of a computed result is production cost x
\* production + (freight rate + handling rate) x shipment quantity +
\* holding rate x (source inventory above its minimum + destination
\* inventory above its minimum), the holding rate being 1% of the source's
\* production cost and 0 when that is unavailable; the holding component
\* is never negative and is 0 when neither node holds more than its
\* minimum.  Amounts named _x100 are in hundredths.
C25_TotalObjective ==
    Computed =>
        LET r    == last.result.route
            dv   == last.result.decision_variables
            o    == last.result.objective_function
            held == HeldAbove(dv.I_source, r.source_closing_min)
                    + HeldAbove(dv.I_dest, r.destination_closing_min)
        IN  /\ o.production_cost = ValueOrZero(r.production_cost) * dv.P
            /\ o.transport_cost
                 = (ValueOrZero(r.freight_cost) + ValueOrZero(r.handling_cost)) * dv.X
            /\ o.holding_rate_x100 = ValueOrZero(r.production_cost)
            /\ o.holding_cost_x100 = o.holding_rate_x100 * held
            /\ o.total_Z_x100
                 = 100 * o.production_cost + 100 * o.transport_cost + o.holding_cost_x100
            /\ o.holding_cost_x100 >= 0
            /\ held = 0 => o.holding_cost_x100 = 0

\* all three components are charged while the source ends below its minimum
C25_Witness ==
    /\ Computed
    /\ last.result.objective_function.production_cost > 0
    /\ last.result.objective_function.transport_cost > 0
    /\ last.result.objective_function.holding_cost_x100 > 0
    /\ last.result.decision_variables.I_source
         < ValueOrZero(last.result.route.source_closing_min)

\* nothing is held above a minimum and nothing is charged for holding
C25_WitnessNothingHeld ==
    /\ Computed
    /\ last.result.route.production_cost = Num(10)
    /\ last.result.decision_variables.X > 0
    /\ last.result.objective_function.holding_cost_x100 = 0

\* C28: in every computed result the destination ending inventory is at
\* least the destination closing-stock minimum (0 when absent), so the
\* destination floor check passes, the destination message is not among
\* the issues, and an infeasible result has a capacity violation or a
\* source below its floor.
C28_DestinationFloorAlwaysMet ==
    Computed =>
        LET r  == last.result.route
            dv == last.result.decision_variables
            f  == last.result.feasibility
        IN  /\ dv.I_dest >= ValueOrZero(r.destination_closing_min)
            /\ dv.I_dest_satisfied
            /\ ~Contains(f.issues, "destination_safety_stock")
            /\ ~f.is_feasible => (f.capacity_violation > 0 \/ ~dv.I_source_satisfied)

\* an infeasible result whose destination needed a shipment that is not a
\* whole number of vehicles
C28_Witness ==
    /\ Computed
    /\ ~last.result.feasibility.is_feasible
    /\ last.result.decision_variables.X_minimum_required > 0
    /\ last.result.decision_variables.X > last.result.decision_variables.X_minimum_required
    /\ last.result.route.destination_closing_min = Num(30)

\* C30: the vehicle capacity a computed result uses for its trip count and
\* shipment quantity is the vehicle capacity the mode list of the route
\* reports for the mode of the request.
C30_ModeCapacitiesAgree ==
    Computed =>
        LET dv      == last.result.decision_variables
            details == get_transport_modes(parser_data, parser_metadata,
                                           parser_is_loaded, last.source,
                                           last.destination)
        IN  \A i \in 1..Len(details) :
               details[i].code = last.mode =>
                  /\ details[i].vehicle_capacity = Num(dv.vehicle_capacity)
                  /\ dv.X = dv.T * details[i].vehicle_capacity.v

\* a route served by T3 is computed with 30 per vehicle while the mode
\* list reports 10000
C30_SeaModeDisagrees ==
    /\ Computed
    /\ last.mode = "T3"
    /\ last.result.decision_variables.vehicle_capacity = 30
    /\ \E i \in 1..Len(get_transport_modes(parser_data, parser_metadata,
                           parser_is_loaded, last.source, last.destination)) :
          get_transport_modes(parser_data, parser_metadata, parser_is_loaded,
                              last.source, last.destination)[i]
            = [code |-> "T3", name |-> "Sea", vehicle_capacity |-> Num(10000)]

\* C29: whenever a route query passes validation, the tables the
\* calculator reads are the tables the validator checked the request
\* against.
C29_CalculatorReadsValidatedDataset ==
    (Validated /\ Computed) => optimizer_data = parser_data

\* a validated request is computed over a loaded dataset
C29_Witness ==
    /\ Validated
    /\ Computed
    /\ optimizer_is_loaded
    /\ "Logistics" \in DOMAIN optimizer_data
    /\ optimizer_data = parser_data

\* after a load that failed the parser and the optimizer hold different
\* tables, and the route request made then is refused
C29_WitnessRefusedAfterFailedLoad ==
    /\ last.op = "get_route_data"
    /\ ~last.invoked
    /\ last.period # 0
    /\ parser_is_loaded
    /\ optimizer_is_loaded
    /\ "Logistics" \in DOMAIN parser_data
    /\ optimizer_data # parser_data

\* C27: the destinations-by-source map of the metadata a successful load
\* returns has an entry exactly for the valid sources, and the entry of a
\* source lists exactly the destinations the destinations request lists for
\* it.
C27_RoutesBySourceIsFiltered ==
    AfterSuccessfulLoad =>
        LET routes_by_source == parser_metadata.routes_by_source
        IN  /\ DOMAIN routes_by_source = Range(parser_metadata.source_ius)
            /\ \A s \in DOMAIN routes_by_source :
                  routes_by_source[s]
                    = get_destinations_for_source(parser_data, parser_is_loaded, s)

\* the distinct mode codes of the route rows of exactly one pair
PairModes(source, destination) ==
    {parser_data["Logistics"].rows[i].mode :
        i \in {k \in 1..Len(parser_data["Logistics"].rows) :
                  /\ parser_data["Logistics"].rows[k].src = source
                  /\ parser_data["Logistics"].rows[k].dst = destination}}

\* the modes the metadata's modes-by-route map holds for a pair
ModesByRoute(source, destination) ==
    IF route_key(source, destination) \in DOMAIN parser_metadata.modes_by_route
    THEN Range(parser_metadata.modes_by_route[route_key(source, destination)])
    ELSE {}

\* C26: for every (source, destination) pair the modes-by-route entry of
\* the load metadata and the mode list of the pair both hold exactly the
\* distinct mode codes of the route rows of that pair, whatever characters
\* the plant codes contain.
C26_ModesOfExactlyThePair ==
    parser_is_loaded =>
        /\ \A s \in IndexSources, d \in IndexDestinations :
              /\ ModesByRoute(s, d) = PairModes(s, d)
              /\ Range(get_modes_for_route(parser_data, parser_is_loaded, s, d))
                   = PairModes(s, d)
        /\ (last.op = "get_transport_modes" /\ last.success) =>
              {last.result.modes[i].code : i \in 1..Len(last.result.modes)}
                = PairModes(last.source, last.destination)

\* the mode lists and the requests are right: only the map's entries differ
C26_ModeListsAreExact ==
    parser_is_loaded =>
        /\ \A s \in IndexSources, d \in IndexDestinations :
              Range(get_modes_for_route(parser_data, parser_is_loaded, s, d))
                = PairModes(s, d)
        /\ (last.op = "get_transport_modes" /\ last.success) =>
              {last.result.modes[i].code : i \in 1..Len(last.result.modes)}
                = PairModes(last.source, last.destination)

\* the map is right for pairs whose keys do not collide
C26_OtherEntriesAreExact ==
    parser_is_loaded =>
        /\ ModesByRoute("IU", "GU") = PairModes("IU", "GU")
        /\ ModesByRoute("IU_X", "X_GU") = PairModes("IU_X", "X_GU")

====
